---- MODULE Spec2Model ----
(***************************************************************************)
(* TVShowProcessor, the TV show organizer: the run coordinator, the file   *)
(* mover, the checkpoint, the undo log and the filename parser, as a state *)
(* machine over a small file system.                                       *)
(*                                                                         *)
(* A path is a sequence of components; a component (a directory or file    *)
(* name) is a sequence of lexical tokens, the last token of a file name    *)
(* being its extension.  A regular expression of the configuration is      *)
(* modelled by the tokens it matches and the group it captures.  A CJK     *)
(* character is written by its code point, \\u4e00 for the numeral one.     *)
(***************************************************************************)
EXTENDS Integers, Sequences, FiniteSets, TLC

\* ------------------------------------------------------------ bounds
MaxFiles  == 2      \* media files in the source tree
MaxOps    == 2      \* calls of process() / undo_last_actions() in one behaviour
MaxFaults == 2      \* I/O operations the environment lets fail in one behaviour
MaxUndo   == 2      \* largest step count passed to undo_last_actions

\* ------------------------------------------------------------ configuration
\* paths.tv_shows, paths.output, paths.backup (DEFAULT_CONFIG, lines 36-42)
Root      == << <<"src">> >>
OutRoot   == << <<"out">> >>
BackupDir == << <<"bak">> >>
\* rules.max_workers (line 57 sets 4; the model runs the pool with this many threads)
max_workers == 2
\* rules.extensions, rules.metadata_extensions, rules.exclude_* (lines 45-51)
extensions          == {".mp4", ".mkv", ".avi", ".ts", ".mov", ".flv", ".wmv"}
metadata_extensions == <<".nfo", ".srt">>
exclude_keywords    == {"sample", "trailer", "temp"}
exclude_dirs        == {"@eaDir", "extras", "sample", "temp"}

\* ------------------------------------------------------------ os.path
join(dir, name)  == Append(dir, name)
dirname(p)       == SubSeq(p, 1, Len(p) - 1)
basename(p)      == IF Len(p) = 0 THEN <<>> ELSE p[Len(p)]
\* os.path.splitext on a file name: (root, ext)
splitext_root(n) == SubSeq(n, 1, Len(n) - 1)
splitext_ext(n)  == IF Len(n) = 0 THEN "" ELSE n[Len(n)]
\* os.path.splitext(path)[0] + ext : the same path with another extension
with_ext(p, ext) == join(dirname(p), Append(splitext_root(basename(p)), ext))

\* ------------------------------------------------------------ the source tree
\* Candidate media files of the source tree (the content of file i is i).
Tree ==
  << Root \o << <<"ShowA", " ", "S01">>, <<"part1", ".mkv">> >>,
     Root \o << <<"ShowA", " ", "S01">>, <<"part2", ".mkv">> >>,
     Root \o << <<"misc">>, <<"ShowB", ".", "S01", "E02", ".mkv">> >>,
     Root \o << <<"misc">>, <<"random_video_clip", ".mp4">> >>,
     Root \o << <<"misc">>, <<"holiday_footage", ".avi">> >> >>
Files == 1 .. Len(Tree)
\* Media files that may lie elsewhere in the source tree, in and under a
\* directory with an excluded name.
Elsewhere ==
  << Root \o << <<"Extras">>, <<"clip", ".mkv">> >>,
     Root \o << <<"Extras">>, <<"inner">>, <<"clip", ".mkv">> >>,
     Root \o << <<"misc">>, <<"sample">>, <<"clip", ".mkv">> >> >>
\* every path os.walk(root) can come upon
Walk == Tree \o Elsewhere
\* Sidecar files that accompany a media file: <<media file, extension>>.
Sidecars == << <<3, ".nfo">>, <<3, ".srt">>, <<4, ".nfo">> >>
SidecarId(k) == Len(Tree) + k

\* ------------------------------------------------------------ patterns
\* Tokens that S\d+ / [Ss](\d+) match, with the digits they capture.
SNum == ("S00" :> "00") @@ ("S01" :> "01") @@ ("S02" :> "02")
\* Tokens that E(\d{1,3}) matches (IGNORECASE), with the digits they capture.
ENum == ("E00" :> "00") @@ ("E01" :> "01") @@ ("E02" :> "02") @@ ("E03" :> "03")
\* int() of a digit string; -1 stands for ValueError
Digits == ("00" :> 0) @@ ("01" :> 1) @@ ("02" :> 2) @@ ("03" :> 3)
None == -1
int(s) == IF s \in DOMAIN Digits THEN Digits[s] ELSE None

dir_season_patterns ==
  << "[Ss](\\d+)", "Season[\\s\\.]*?(\\d+)", "\\u7b2c([\\u4e00\\u4e8c\\u4e09\\u56db\\u4e94\\u516d\\u4e03\\u516b\\u4e5d\\u5341]+)\\u5b63",
     "Season\\s*([\\u4e00\\u4e8c\\u4e09\\u56db\\u4e94\\u516d\\u4e03\\u516b\\u4e5d\\u5341]+)" >>
episode_patterns ==
  << "E(\\d{1,3})", "EP(\\d{1,3})", "\\[\\u7b2c?(\\d{1,3})[\\u96c6\\u8bdd]\\]", "\\s(\\d{1,3})\\.",
     "\\u7b2c([\\u4e00\\u4e8c\\u4e09\\u56db\\u4e94\\u516d\\u4e03\\u516b\\u4e5d\\u5341\\u767e]+)[\\u96c6\\u8bdd]", "-\\s*(\\d{1,3})[\\s\\.]", "\\u96c6(\\d{1,3})" >>

\* group(1) of the pattern on one token, "" when the token has no match
group1(pat, tok) ==
  CASE pat = "[Ss](\\d+)"  -> IF tok \in DOMAIN SNum THEN SNum[tok] ELSE ""
    [] pat = "E(\\d{1,3})" -> IF tok \in DOMAIN ENum THEN ENum[tok] ELSE ""
    [] OTHER               -> ""

\* pattern.search(name): index of the first matching token, 0 when none
RECURSIVE search_from(_, _, _)
search_from(pat, name, i) ==
  IF i > Len(name) THEN 0
  ELSE IF group1(pat, name[i]) # "" THEN i
  ELSE search_from(pat, name, i + 1)
search(pat, name) == search_from(pat, name, 1)

\* re.sub(pattern, '', name)
RECURSIVE re_sub(_, _)
re_sub(pat, name) ==
  IF Len(name) = 0 THEN <<>>
  ELSE IF group1(pat, Head(name)) # "" THEN re_sub(pat, Tail(name))
  ELSE <<Head(name)>> \o re_sub(pat, Tail(name))

\* str.strip()
RECURSIVE lstrip(_)
lstrip(name) ==
  IF Len(name) > 0 /\ Head(name) = " " THEN lstrip(Tail(name)) ELSE name
RECURSIVE rstrip(_)
rstrip(name) ==
  IF Len(name) > 0 /\ name[Len(name)] = " "
  THEN rstrip(SubSeq(name, 1, Len(name) - 1)) ELSE name
strip(name) == rstrip(lstrip(name))

\* str.replace('.', ' ')
replace_dots(name) == [i \in 1 .. Len(name) |-> IF name[i] = "." THEN " " ELSE name[i]]

\* s.lstrip('Ss') on a captured group
lstrip_Ss(s) == IF s \in DOMAIN SNum THEN SNum[s] ELSE s

cn_season == ("\\u4e00" :> 1) @@ ("\\u4e8c" :> 2) @@ ("\\u4e09" :> 3) @@ ("\\u56db" :> 4) @@ ("\\u4e94" :> 5)
          @@ ("\\u516d" :> 6) @@ ("\\u4e03" :> 7) @@ ("\\u516b" :> 8) @@ ("\\u4e5d" :> 9) @@ ("\\u5341" :> 10)
cn_episode == cn_season
          @@ ("\\u5341\\u4e00" :> 11) @@ ("\\u5341\\u4e8c" :> 12) @@ ("\\u5341\\u4e09" :> 13) @@ ("\\u5341\\u56db" :> 14)
          @@ ("\\u5341\\u4e94" :> 15) @@ ("\\u5341\\u516d" :> 16) @@ ("\\u5341\\u4e03" :> 17) @@ ("\\u5341\\u516b" :> 18)
          @@ ("\\u5341\\u4e5d" :> 19) @@ ("\\u4e8c\\u5341" :> 20)

_parse_season_number(s) ==
  IF s \in DOMAIN cn_season THEN cn_season[s] ELSE int(lstrip_Ss(s))

_parse_episode_number(s) ==
  IF s \in DOMAIN cn_episode THEN cn_episode[s] ELSE int(s)

\* first episode pattern that matches decides
RECURSIVE _extract_episode_from(_, _)
_extract_episode_from(name, k) ==
  IF k > Len(episode_patterns) THEN None
  ELSE LET i == search(episode_patterns[k], name)
       IN IF i # 0 THEN _parse_episode_number(group1(episode_patterns[k], name[i]))
          ELSE _extract_episode_from(name, k + 1)
_extract_episode(name) == _extract_episode_from(name, 1)

NoInfo == [title |-> <<>>, season |-> None, episode |-> None, ext |-> ""]
Info(t, s, e) == [title |-> t, season |-> s, episode |-> e, ext |-> ""]

\* first loop of _extract_info_from_dir: the immediate directory name
RECURSIVE dir_loop1(_, _)
dir_loop1(dname, k) ==
  IF k > Len(dir_season_patterns) THEN NoInfo
  ELSE LET pat    == dir_season_patterns[k]
           i      == search(pat, dname)
           season == IF i = 0 THEN None ELSE _parse_season_number(group1(pat, dname[i]))
           title  == strip(re_sub(pat, dname))
       IN IF i # 0 /\ season # None /\ Len(title) > 0
          THEN Info(title, season, 1)
          ELSE dir_loop1(dname, k + 1)

\* second loop of _extract_info_from_dir: the parent directory name
RECURSIVE dir_loop2(_, _, _)
dir_loop2(dname, parent, k) ==
  IF k > Len(dir_season_patterns) THEN NoInfo
  ELSE LET pat    == dir_season_patterns[k]
           i      == search(pat, parent)
           season == IF i = 0 THEN None ELSE _parse_season_number(group1(pat, parent[i]))
       IN IF i # 0 /\ season # None
          THEN Info(dname, season, 1)
          ELSE dir_loop2(dname, parent, k + 1)

_extract_info_from_dir(dname, parent) ==
  LET r == dir_loop1(dname, 1)
  IN IF r # NoInfo THEN r ELSE dir_loop2(dname, parent, 1)

\* title_season pattern '^(.+?)(?:\.\d{4})?\.(S\d+)': the first "." that is
\* followed by an S-token and preceded by a non-empty title; 0 when none
RECURSIVE title_season_dot(_, _)
title_season_dot(name, i) ==
  IF i + 1 > Len(name) THEN 0
  ELSE IF i >= 2 /\ name[i] = "." /\ name[i + 1] \in DOMAIN SNum THEN i
  ELSE title_season_dot(name, i + 1)

\* The other title_season patterns (Season N and the CJK forms) match no token sequence
\* of the alphabet, so the loop over the patterns reduces to the first one.
_extract_info_from_filename(base) ==
  LET i       == title_season_dot(base, 1)
      title   == IF i = 0 THEN <<>> ELSE strip(replace_dots(SubSeq(base, 1, i - 1)))
      season  == IF i = 0 THEN None ELSE _parse_season_number(base[i + 1])
      episode == IF i = 0 THEN None
                 ELSE _extract_episode(SubSeq(base, i + 2, Len(base)))
  IN IF i # 0 /\ Len(title) > 0 /\ season # None /\ episode # None
     THEN Info(title, season, episode)
     ELSE NoInfo

RECURSIVE _extract_season_from_dir_k(_, _)
_extract_season_from_dir_k(dname, k) ==
  IF k > Len(dir_season_patterns) THEN None
  ELSE LET i == search(dir_season_patterns[k], dname)
       IN IF i # 0 THEN _parse_season_number(group1(dir_season_patterns[k], dname[i]))
          ELSE _extract_season_from_dir_k(dname, k + 1)
_extract_season_from_dir(dname) == _extract_season_from_dir_k(dname, 1)

\* the re.sub chain of _extract_title_from_filename: cut at the first separator
\* that is followed by S\d+ or E\d+ (upper case only), then '.' -> ' ', strip
RECURSIVE title_cut(_, _)
title_cut(base, i) ==
  IF i + 1 > Len(base) THEN Len(base) + 1
  ELSE IF base[i] \in {".", "_", "-"}
          /\ (base[i + 1] \in DOMAIN SNum \/ base[i + 1] \in DOMAIN ENum) THEN i
  ELSE title_cut(base, i + 1)
_extract_title_from_filename(base) ==
  strip(replace_dots(SubSeq(base, 1, title_cut(base, 1) - 1)))

_extract_mixed_info(dname, parent, base) ==
  LET s1      == _extract_season_from_dir(dname)
      season  == IF s1 = None THEN _extract_season_from_dir(parent) ELSE s1
      title   == _extract_title_from_filename(base)
      episode == _extract_episode(base)
  IN IF season # None /\ Len(title) > 0 /\ episode # None
     THEN Info(title, season, episode)
     ELSE NoInfo

\* _filter_chinese: no token of the alphabet has a CJK character, the text is kept
_filter_chinese(text) == text

\* extract_info(filepath): NoInfo stands for None
extract_info(filepath) ==
  LET filename == basename(filepath)
      base     == splitext_root(filename)
      ext      == splitext_ext(filename)
      dname    == basename(dirname(filepath))
      parent   == basename(dirname(dirname(filepath)))
      r1       == _extract_info_from_dir(dname, parent)
      r2       == _extract_info_from_filename(base)
      r3       == _extract_mixed_info(dname, parent, base)
      result   == IF r1 # NoInfo THEN r1 ELSE IF r2 # NoInfo THEN r2 ELSE r3
  IN IF result = NoInfo THEN NoInfo
     ELSE [result EXCEPT !.title = _filter_chinese(result.title), !.ext = ext]

\* ------------------------------------------------------------ state
VARIABLES
  cfg,         \* rules.parallel_processing, rules.retry_on_error, paths.backup set or ''
  fs,          \* the files that exist: path -> content
  dirs,        \* the directories that exist besides those of the source tree
  undo_log,    \* the persisted history file: sequence of [original, new_path]
  checkpoint,  \* the persisted checkpoint file: [ok, paths]; ok = it parses as a list
  counters,    \* self.counters
  run,         \* the call of process() in progress
  pc,          \* per file of the run: where its processing stands
  loc,         \* per file: the locals of the thread that processes it
  faults,      \* I/O operations that have failed so far
  ops,         \* the calls made so far
  snap,        \* the persistent state when the last call of process() began
  res,         \* per file: its outcome in the last run
  moves,       \* the successful moves of the last run
  shown,       \* the last call of process() reached _show_results
  directory,   \* the directory FileProcessor.batch_rename works on
  file_processor, \* the FileProcessor: processed_files, errors, operations_log
  call,        \* the last call of batch_rename: arguments, state before, result
  probe        \* the last call of a parsing or collecting function: fn, arg, out

\* the state of the TVShowProcessor and of its files
tvshow == << cfg, fs, dirs, undo_log, checkpoint, counters, run, pc, loc, faults,
             ops, snap, res, moves, shown >>
\* what no operation of the TVShowProcessor touches
aside  == << directory, file_processor, call, probe >>
vars   == << tvshow, aside >>

counters0 == [processed |-> 0, moved |-> 0, skipped |-> 0, errors |-> 0, backups |-> 0,
              parallel_success |-> 0, parallel_errors |-> 0]
run0  == [active |-> FALSE, preview |-> FALSE, parallel |-> FALSE, all_files |-> <<>>,
          processed |-> {}, initial_errors |-> 0, next |-> 1]
loc0  == [t |-> 0, h |-> <<>>, sc |-> 0, snapshot |-> {}]

\* ------------------------------------------------------------ planning
\* '{season:02d}'
fmt02d(n) == IF n < 10 THEN "0" \o ToString(n) ELSE ToString(n)

\* A planner that numbers the episodes by the moves made so far: the kind of
\* state-dependent planning that _build_output_path does not do.
_build_output_path_numbering(info) ==
  join(join(join(OutRoot, info.title), <<"Season ", fmt02d(info.season)>>),
       info.title \o <<".S", fmt02d(info.season), ".E",
                       fmt02d(info.episode + counters.moved), info.ext>>)

\* _build_output_path(info): output / '{title}/Season {season:02d}' /
\* '{title}.S{season:02d}.E{episode:02d}{ext}'
_build_output_path(info) ==
  join(join(join(OutRoot, info.title), <<"Season ", fmt02d(info.season)>>),
       info.title \o <<".S", fmt02d(info.season), ".E", fmt02d(info.episode), info.ext>>)

\* ------------------------------------------------------------ file system
exists(p)   == p \in DOMAIN fs
Put(f, p, c) == [q \in (DOMAIN f) \cup {p} |-> IF q = p THEN c ELSE f[q]]
Remove(f, p) == [q \in (DOMAIN f) \ {p} |-> f[q]]
SourceDirs  == {Root} \cup {dirname(Tree[i]) : i \in Files}
isdir(d)    == d \in dirs \/ d \in SourceDirs
\* os.makedirs(d, exist_ok=True)
makedirs(d) == dirs \cup {SubSeq(d, 1, k) : k \in 1 .. Len(d)}
\* shutil.move(src, dst) on files: rename, replacing a file that is at dst
movable(src, dst)        == exists(src) /\ isdir(dirname(dst))
shutil_move(f, src, dst) == Put(Remove(f, src), dst, f[src])
listdir(d)  == {p \in DOMAIN fs : dirname(p) = d}

\* the environment lets an I/O operation fail, at most MaxFaults times
Env(ok) == /\ ok \/ faults < MaxFaults
           /\ faults' = IF ok THEN faults ELSE faults + 1

\* ------------------------------------------------------------ per file
FileOf(p)     == CHOOSE i \in Files : Tree[i] = p
src(f)        == Tree[f]
parsed        == [i \in Files |-> extract_info(Tree[i])]
info(f)       == parsed[f]
new_path(f)   == _build_output_path(info(f))
temp_dir(f)   == join(dirname(new_path(f)), <<".temp">>)
temp_path(f)  == join(temp_dir(f), basename(src(f)))
backup_path(f) == join(BackupDir, basename(src(f)))
old_meta(f, i) == with_ext(src(f), metadata_extensions[i])
new_meta(f, i) == with_ext(new_path(f), metadata_extensions[i])
Entry(o, n)   == [original |-> o, new_path |-> n]
Active(f)     == pc[f] \notin {"idle", "done"}

\* ------------------------------------------------------------ collection
lower(tok) ==
  CASE tok = "@eaDir" -> "@eadir" [] tok = "Extras" -> "extras"
    [] tok = "Sample" -> "sample" [] OTHER -> tok
_should_skip_dir(dirpath) ==
  \E i \in 1 .. Len(basename(dirpath)) :
     lower(basename(dirpath)[i]) \in {lower(d) : d \in exclude_dirs}
_should_skip(filepath) ==
  \E i \in 1 .. Len(basename(filepath)) :
     lower(basename(filepath)[i]) \in exclude_keywords
\* every candidate file is larger than rules.min_size_mb
_is_valid_video(filepath) ==
  exists(filepath) /\ lower(splitext_ext(basename(filepath))) \in extensions
Collectable(filepath, processed) ==
  /\ ~ _should_skip_dir(dirname(filepath))
  /\ _is_valid_video(filepath)
  /\ filepath \notin processed
  /\ ~ _should_skip(filepath)
\* a collection that does not look at the checkpoint
_collect_files_anew(processed) ==
  SelectSeq(Walk, LAMBDA p : Collectable(p, {}))

\* os.walk(root): the media files of the tree in walk order
_collect_files(processed) ==
  SelectSeq(Walk, LAMBDA p : Collectable(p, processed))

_load_checkpoint == IF checkpoint.ok THEN checkpoint.paths ELSE {}

\* ------------------------------------------------------------ Init
\* the configurations of the model: the sequential loop with a backup directory,
\* with and without rules.retry_on_error; the pool without either
Configs ==
  {[parallel_processing |-> FALSE, retry_on_error |-> r, backup |-> TRUE] : r \in BOOLEAN}
  \cup {[parallel_processing |-> TRUE, retry_on_error |-> FALSE, backup |-> FALSE]}

InitFs(M) ==
  LET S == {k \in 1 .. Len(Sidecars) : Sidecars[k][1] \in M}
      P == {Tree[i] : i \in M} \cup {with_ext(Tree[Sidecars[k][1]], Sidecars[k][2]) : k \in S}
  IN [p \in P |->
        IF \E i \in M : Tree[i] = p THEN FileOf(p)
        ELSE SidecarId(CHOOSE k \in S : with_ext(Tree[Sidecars[k][1]], Sidecars[k][2]) = p)]

\* the TVShowProcessor after construction (lines 178-213) with configuration c
\* over the files F
Constructed(c, F) ==
  /\ cfg = c
  /\ fs = F
  /\ dirs = {OutRoot}
  /\ undo_log = <<>>
  /\ checkpoint = [ok |-> TRUE, paths |-> {}]
  /\ counters = counters0
  /\ run = run0
  /\ pc = [f \in Files |-> "idle"]
  /\ loc = [f \in Files |-> loc0]
  /\ faults = 0
  /\ ops = <<>>
  /\ snap = [fs |-> F, dirs |-> {OutRoot}, undo_log |-> <<>>,
             checkpoint |-> [ok |-> TRUE, paths |-> {}], counters |-> counters0]
  /\ res = [f \in Files |-> "none"]
  /\ moves = {}
  /\ shown = FALSE

directory0      == [exists |-> FALSE, files |-> {}, subdirs |-> {}]
file_processor0 == [processed_files |-> <<>>, errors |-> <<>>, operations_log |-> <<>>]
call0           == [n |-> 0]
probe0          == [fn |-> "none"]

Init ==
  /\ \E c \in Configs, M \in SUBSET Files :
        /\ Cardinality(M) >= 1 /\ Cardinality(M) <= MaxFiles
        /\ Constructed(c, InitFs(M))
  /\ directory = directory0
  /\ file_processor = file_processor0
  /\ call = call0
  /\ probe = probe0

\* ------------------------------------------------------------ process()
\* a dispatch that looks at rules.parallel_processing alone
to_pool_by_config(preview) == cfg.parallel_processing

\* the files go to _process_files_parallel (line 299)
to_pool(preview) == cfg.parallel_processing /\ ~ preview

\* process(preview): load the checkpoint, collect, dispatch (lines 284-302)
process(preview) ==
  /\ ~ run.active
  /\ Len(ops) < MaxOps
  /\ LET processed == _load_checkpoint
         all_files == _collect_files(processed)
     IN /\ ops' = Append(ops, [kind |-> IF preview THEN "preview" ELSE "execute",
                               n |-> Len(all_files)])
        /\ snap' = [fs |-> fs, dirs |-> dirs, undo_log |-> undo_log,
                    checkpoint |-> checkpoint, counters |-> counters]
        /\ res' = [f \in Files |-> "none"]
        /\ moves' = {}
        /\ shown' = FALSE
        /\ pc' = [f \in Files |-> "idle"]
        /\ run' = IF all_files = <<>> THEN run0
                  ELSE [active |-> TRUE, preview |-> preview,
                        parallel |-> to_pool(preview),
                        all_files |-> all_files, processed |-> processed,
                        initial_errors |-> counters.errors, next |-> 1]
  /\ UNCHANGED << aside, cfg, fs, dirs, undo_log, checkpoint, counters, loc, faults >>

\* An exception of _process_single_file reaches the handler of the file: the
\* sequential loop counts it (lines 313-315); in the pool process_file returns
\* False and the coordinator counts the future (lines 329-331, 342-343).
Raised(c) ==
  IF run.parallel THEN [c EXCEPT !.parallel_errors = @ + 1]
  ELSE [c EXCEPT !.errors = @ + 1]

\* process_file returns True and the coordinator counts the future (lines 328,
\* 340-341); the sequential loop goes on (line 317)
Returned(c) ==
  IF run.parallel THEN [c EXCEPT !.parallel_success = @ + 1] ELSE c

\* The thread of f goes on at target with counters c and outcome r; the targets
\* "raise" and "return" end the processing of f.
Go(f, target, c, r) ==
  /\ pc' = [pc EXCEPT ![f] = IF target \in {"raise", "return"} THEN "done" ELSE target]
  /\ counters' = CASE target = "raise"  -> Raised(c)
                   [] target = "return" -> Returned(c)
                   [] OTHER             -> c
  /\ res' = [res EXCEPT ![f] = IF target = "raise" THEN "error" ELSE r]

\* The loop of _process_files_sequential takes the next file when the previous
\* one is finished; the pool of _process_files_parallel takes it when a thread is
\* free.  The thread begins _process_single_file: it loads counters['processed'].
start_file(f) ==
  /\ run.active
  /\ run.next <= Len(run.all_files)
  /\ f = FileOf(run.all_files[run.next])
  /\ IF run.parallel
     THEN Cardinality({g \in Files : Active(g)}) < max_workers
     ELSE \A g \in Files : ~ Active(g)
  /\ run' = [run EXCEPT !.next = run.next + 1]
  /\ pc' = [pc EXCEPT ![f] = "count_processed"]
  /\ loc' = [loc EXCEPT ![f] = [loc0 EXCEPT !.t = counters.processed]]
  /\ UNCHANGED << aside, cfg, fs, dirs, undo_log, checkpoint, counters, faults, ops, snap,
                  res, moves, shown >>

\* a _move_file that gives the file up when its backup copy fails
after_backup_or_raise(copied) == IF copied THEN "read_backups" ELSE "raise"

\* if self._backup_file(src): counters['backups'] += 1, then the move whatever
\* _backup_file returned (lines 385-388)
after_backup(copied) == IF copied THEN "read_backups" ELSE "move"

\* counters['processed'] += 1 (the store) and extract_info (lines 367-372); for
\* a resolved file _move_file up to the move: os.makedirs(dirname(new_path)), in
\* preview the report, else _backup_file (lines 376-386).  _backup_file (lines
\* 428-440) is False without a backup directory or when the copy fails.
count_processed(f) ==
  /\ pc[f] = "count_processed"
  /\ loc' = [loc EXCEPT ![f].t = 0]
  /\ LET c == [counters EXCEPT !.processed = loc[f].t + 1]
     IN IF info(f) = NoInfo
        THEN /\ Go(f, "read_skipped", c, res[f])
             /\ UNCHANGED << fs, dirs, faults >>
        ELSE \E ok_dir, ok_copy \in BOOLEAN :
               LET copying == ok_dir /\ ~ run.preview /\ cfg.backup
                   copied  == copying /\ ok_copy /\ exists(src(f))
               IN /\ copying \/ ok_copy
                  /\ faults' = faults + (IF ok_dir THEN 0 ELSE 1) + (IF ok_copy THEN 0 ELSE 1)
                  /\ faults' <= MaxFaults
                  /\ dirs' = IF ~ ok_dir THEN dirs
                             ELSE makedirs(dirname(new_path(f)))
                                  \cup (IF copying THEN makedirs(BackupDir) ELSE {})
                  /\ fs' = IF copied THEN Put(fs, backup_path(f), fs[src(f)]) ELSE fs
                  /\ Go(f, IF ~ ok_dir THEN "raise"
                           ELSE IF run.preview THEN "save"
                           ELSE after_backup(copied),
                        c, IF ok_dir /\ run.preview THEN "previewed" ELSE res[f])
  /\ UNCHANGED << aside, cfg, undo_log, checkpoint, run, ops, snap, moves, shown >>

\* counters['skipped'] += 1: the load (line 370)
read_skipped(f) ==
  /\ pc[f] = "read_skipped"
  /\ loc' = [loc EXCEPT ![f].t = counters.skipped]
  /\ pc' = [pc EXCEPT ![f] = "count_skipped"]
  /\ UNCHANGED << aside, cfg, fs, dirs, undo_log, checkpoint, counters, run, faults, ops,
                  snap, res, moves, shown >>

\* counters['skipped'] += 1: the store; _process_single_file returns (lines 370-372)
count_skipped(f) ==
  /\ pc[f] = "count_skipped"
  /\ loc' = [loc EXCEPT ![f].t = 0]
  /\ Go(f, "save", [counters EXCEPT !.skipped = loc[f].t + 1], "skipped")
  /\ UNCHANGED << aside, cfg, fs, dirs, undo_log, checkpoint, run, faults, ops, snap, moves,
                  shown >>

\* counters['backups'] += 1: the load (line 386)
read_backups(f) ==
  /\ pc[f] = "read_backups"
  /\ loc' = [loc EXCEPT ![f].t = counters.backups]
  /\ pc' = [pc EXCEPT ![f] = "count_backups"]
  /\ UNCHANGED << aside, cfg, fs, dirs, undo_log, checkpoint, counters, run, faults, ops,
                  snap, res, moves, shown >>

\* counters['backups'] += 1: the store (line 386)
count_backups(f) ==
  /\ pc[f] = "count_backups"
  /\ loc' = [loc EXCEPT ![f].t = 0]
  /\ Go(f, "move", [counters EXCEPT !.backups = loc[f].t + 1], res[f])
  /\ UNCHANGED << aside, cfg, fs, dirs, undo_log, checkpoint, run, faults, ops, snap, moves,
                  shown >>

\* shutil.move(src, new_path) (lines 387-388); on an exception the fallback when
\* rules.retry_on_error, else RuntimeError (lines 393-401)
move_primary(f) ==
  /\ pc[f] = "move"
  /\ \E ok \in BOOLEAN :
       /\ Env(ok)
       /\ LET done == ok /\ movable(src(f), new_path(f))
          IN /\ fs' = IF done THEN shutil_move(fs, src(f), new_path(f)) ELSE fs
             /\ moves' = IF done THEN moves \cup {Entry(src(f), new_path(f))} ELSE moves
             /\ Go(f, IF done THEN "read_history"
                      ELSE IF cfg.retry_on_error THEN "fallback" ELSE "raise",
                   counters, res[f])
  /\ UNCHANGED << aside, cfg, dirs, undo_log, checkpoint, run, loc, ops, snap, shown >>

\* _process_with_fallback: os.makedirs(temp_dir) (lines 418-419)
fallback_makedirs(f) ==
  /\ pc[f] = "fallback"
  /\ \E ok \in BOOLEAN :
       /\ Env(ok)
       /\ dirs' = IF ok THEN makedirs(temp_dir(f)) ELSE dirs
       /\ Go(f, IF ok THEN "to_temp" ELSE "raise", counters, res[f])
  /\ UNCHANGED << aside, cfg, fs, undo_log, checkpoint, run, loc, ops, snap, moves, shown >>

\* shutil.move(src, temp_path) (line 421)
fallback_to_temp(f) ==
  /\ pc[f] = "to_temp"
  /\ \E ok \in BOOLEAN :
       /\ Env(ok)
       /\ LET done == ok /\ movable(src(f), temp_path(f))
          IN /\ fs' = IF done THEN shutil_move(fs, src(f), temp_path(f)) ELSE fs
             /\ Go(f, IF done THEN "to_dest" ELSE "raise", counters, res[f])
  /\ UNCHANGED << aside, cfg, dirs, undo_log, checkpoint, run, loc, ops, snap, moves, shown >>

\* shutil.move(temp_path, new_path) (line 422)
fallback_to_dest(f) ==
  /\ pc[f] = "to_dest"
  /\ \E ok \in BOOLEAN :
       /\ Env(ok)
       /\ LET done == ok /\ movable(temp_path(f), new_path(f))
          IN /\ fs' = IF done THEN shutil_move(fs, temp_path(f), new_path(f)) ELSE fs
             /\ moves' = IF done THEN moves \cup {Entry(src(f), new_path(f))} ELSE moves
             /\ Go(f, IF done THEN "rmdir" ELSE "raise", counters, res[f])
  /\ UNCHANGED << aside, cfg, dirs, undo_log, checkpoint, run, loc, ops, snap, shown >>

\* os.rmdir(temp_dir) when it exists and is empty (lines 423-424)
fallback_rmdir(f) ==
  /\ pc[f] = "rmdir"
  /\ dirs' = IF temp_dir(f) \in dirs /\ listdir(temp_dir(f)) = {}
             THEN dirs \ {temp_dir(f)} ELSE dirs
  /\ pc' = [pc EXCEPT ![f] = "read_history"]
  /\ UNCHANGED << aside, cfg, fs, undo_log, checkpoint, counters, run, loc, faults, ops,
                  snap, res, moves, shown >>

\* _record_undo_action: json.load of the history file (lines 519-525); when it
\* raises, the history starts again from the empty list
read_history(f) ==
  /\ pc[f] = "read_history"
  /\ \E ok \in BOOLEAN :
       /\ Env(ok)
       /\ loc' = [loc EXCEPT ![f].h = IF ok THEN undo_log ELSE <<>>]
  /\ pc' = [pc EXCEPT ![f] = "write_history"]
  /\ UNCHANGED << aside, cfg, fs, dirs, undo_log, checkpoint, counters, run, ops, snap, res,
                  moves, shown >>

\* the entry that the thread of f is recording: that of the primary file when
\* loc[f].sc = 0, else that of the sidecar with extension loc[f].sc
entry_of(f) ==
  IF loc[f].sc = 0 THEN Entry(src(f), new_path(f))
  ELSE Entry(old_meta(f, loc[f].sc), new_meta(f, loc[f].sc))

\* the sidecar loop of _move_file (lines 402-405): the next extension after i
\* for which old_meta exists, 0 when the loop ends
next_meta(f, i) ==
  LET S == {j \in (i + 1) .. Len(metadata_extensions) : exists(old_meta(f, j))}
  IN IF S = {} THEN 0 ELSE CHOOSE j \in S : \A k \in S : j <= k
meta_target(j) == IF j = 0 THEN "save" ELSE "meta"

\* _record_undo_action: history.append(entry), json.dump (lines 526-531); a
\* failing write is logged and ignored
_record_undo_action(f) ==
  /\ pc[f] = "write_history"
  /\ \E ok \in BOOLEAN :
       /\ Env(ok)
       /\ undo_log' = IF ok THEN Append(loc[f].h, entry_of(f)) ELSE undo_log
  /\ LET j == next_meta(f, loc[f].sc)
     IN /\ pc' = [pc EXCEPT ![f] = IF loc[f].sc = 0 THEN "read_moved" ELSE meta_target(j)]
        /\ loc' = [loc EXCEPT ![f].h = <<>>, ![f].sc = IF @ = 0 THEN 0 ELSE j]
  /\ UNCHANGED << aside, cfg, fs, dirs, checkpoint, counters, run, ops, snap, res, moves,
                  shown >>

\* counters['moved'] += 1: the load (lines 392, 397)
read_moved(f) ==
  /\ pc[f] = "read_moved"
  /\ loc' = [loc EXCEPT ![f].t = counters.moved]
  /\ pc' = [pc EXCEPT ![f] = "count_moved"]
  /\ UNCHANGED << aside, cfg, fs, dirs, undo_log, checkpoint, counters, run, faults, ops,
                  snap, res, moves, shown >>

\* counters['moved'] += 1: the store; the sidecar loop begins (lines 392, 402)
count_moved(f) ==
  /\ pc[f] = "count_moved"
  /\ LET j == next_meta(f, 0)
     IN /\ loc' = [loc EXCEPT ![f].t = 0, ![f].sc = j]
        /\ Go(f, meta_target(j), [counters EXCEPT !.moved = loc[f].t + 1], "moved")
  /\ UNCHANGED << aside, cfg, fs, dirs, undo_log, checkpoint, run, faults, ops, snap, moves,
                  shown >>

\* a sidecar loop without the handler of lines 413-414: the failure of a sidecar
\* is the failure of the file
move_meta_or_raise(f) ==
  /\ pc[f] = "meta"
  /\ LET i == loc[f].sc
     IN \E ok \in BOOLEAN :
          /\ Env(ok)
          /\ LET done == ok /\ movable(old_meta(f, i), new_meta(f, i))
             IN /\ fs' = IF done THEN shutil_move(fs, old_meta(f, i), new_meta(f, i))
                         ELSE fs
                /\ moves' = IF done THEN moves \cup {Entry(old_meta(f, i), new_meta(f, i))}
                            ELSE moves
                /\ Go(f, IF done THEN "read_history" ELSE "raise", counters, res[f])
                /\ loc' = [loc EXCEPT ![f].sc = IF done THEN i ELSE 0]
  /\ UNCHANGED << aside, cfg, dirs, undo_log, checkpoint, run, ops, snap, shown >>

\* one sidecar (lines 405-414): shutil.move(old_meta, new_meta); a failure is
\* logged and the loop goes on
move_meta(f) ==
  /\ pc[f] = "meta"
  /\ LET i == loc[f].sc
         j == next_meta(f, i)
     IN \E ok \in BOOLEAN :
          /\ Env(ok)
          /\ LET done == ok /\ movable(old_meta(f, i), new_meta(f, i))
             IN /\ fs' = IF done THEN shutil_move(fs, old_meta(f, i), new_meta(f, i))
                         ELSE fs
                /\ moves' = IF done THEN moves \cup {Entry(old_meta(f, i), new_meta(f, i))}
                            ELSE moves
                /\ pc' = [pc EXCEPT ![f] = IF done THEN "read_history" ELSE meta_target(j)]
                /\ loc' = [loc EXCEPT ![f].sc = IF done THEN i ELSE j]
  /\ UNCHANGED << aside, cfg, dirs, undo_log, checkpoint, counters, run, ops, snap, res,
                  shown >>

\* processed.add(filepath) (lines 311, 326) and _save_checkpoint as far as
\* open(checkpoint_file, 'w'), which truncates the file, and list(processed)
\* (lines 505-506); a failure is logged and ignored
add_processed(f) ==
  /\ pc[f] = "save"
  /\ run' = [run EXCEPT !.processed = @ \cup {src(f)}]
  /\ \E ok \in BOOLEAN :
       /\ Env(ok)
       /\ checkpoint' = IF ok THEN [ok |-> FALSE, paths |-> {}] ELSE checkpoint
       /\ loc' = [loc EXCEPT ![f].snapshot = IF ok THEN run'.processed ELSE {}]
       /\ Go(f, IF ok THEN "write_checkpoint" ELSE "return", counters, res[f])
  /\ UNCHANGED << aside, cfg, fs, dirs, undo_log, ops, snap, moves, shown >>

\* what the file holds after a writer that truncated it earlier writes its list
\* from offset 0: the list, unless a longer text was written in between
written(file, snapshot) ==
  IF file.paths \subseteq snapshot THEN [ok |-> TRUE, paths |-> snapshot]
  ELSE [ok |-> FALSE, paths |-> file.paths]

\* _save_checkpoint: json.dump and close (line 506)
_save_checkpoint(f) ==
  /\ pc[f] = "write_checkpoint"
  /\ checkpoint' = written(checkpoint, loc[f].snapshot)
  /\ loc' = [loc EXCEPT ![f] = loc0]
  /\ Go(f, "return", counters, res[f])
  /\ UNCHANGED << aside, cfg, fs, dirs, undo_log, run, faults, ops, snap, moves, shown >>

\* the end of process(): the pool's error count (line 349), _show_results (line 303)
finish ==
  /\ run.active
  /\ run.next > Len(run.all_files)
  /\ \A f \in Files : ~ Active(f)
  /\ counters' = IF run.parallel
                 THEN [counters EXCEPT !.errors = run.initial_errors + counters.parallel_errors]
                 ELSE counters
  /\ shown' = TRUE
  /\ run' = run0
  /\ UNCHANGED << aside, cfg, fs, dirs, undo_log, checkpoint, pc, loc, faults, ops, snap,
                  res, moves >>

\* An operator interrupt (KeyboardInterrupt) during process().  No handler of
\* the program catches it (the handlers of lines 313, 329 and 816 are `except
\* Exception`): in the sequential loop it is raised in the thread that processes
\* the file, wherever that thread stands; in the pool it is raised in the
\* coordinator, and ThreadPoolExecutor.__exit__ lets the workers finish every
\* submitted file before it propagates (so line 349 is not reached).  process()
\* and the program end without _show_results.
interrupt ==
  /\ run.active
  /\ run.parallel => (run.next > Len(run.all_files) /\ \A f \in Files : ~ Active(f))
  /\ ops' = [ops EXCEPT ![Len(ops)].kind =
                  IF run.preview THEN "interrupted preview" ELSE "interrupted"]
  /\ run' = run0
  /\ pc' = [f \in Files |-> "idle"]
  /\ loc' = [f \in Files |-> loc0]
  /\ counters' = counters0
  /\ UNCHANGED << aside, cfg, fs, dirs, undo_log, checkpoint, faults, snap, res, moves, shown >>

\* ------------------------------------------------------------ undo
Min(a, b) == IF a < b THEN a ELSE b
Max(a, b) == IF a > b THEN a ELSE b
\* a slice bound of Python on a list of length n
slice_index(i, n) == IF i < 0 THEN Max(n + i, 0) ELSE Min(i, n)
\* s[i:] and s[:j]
slice_from(s, i) == SubSeq(s, slice_index(i, Len(s)) + 1, Len(s))
slice_to(s, j)   == SubSeq(s, 1, slice_index(j, Len(s)))
reversed(s)      == [k \in 1 .. Len(s) |-> s[Len(s) + 1 - k]]

\* the loop of undo_last_actions (lines 545-554) from entry j on; the moves of
\* the entries in failing raise, which is reported and the loop goes on
RECURSIVE undo_loop(_, _, _, _)
undo_loop(todo, j, f, failing) ==
  IF j > Len(todo) THEN f
  ELSE LET e    == todo[j]
           done == /\ e.new_path \in DOMAIN f
                   /\ j \notin failing
                   /\ isdir(dirname(e.original))
       IN undo_loop(todo, j + 1,
                    IF done THEN shutil_move(f, e.new_path, e.original) ELSE f,
                    failing)

\* the entries that undo_last_actions(steps) goes through, newest first
undo_selected(history, steps) ==
  reversed(slice_from(history, 0 - Min(steps, Len(history))))

\* what undo_last_actions(steps) writes back (line 555)
undo_remaining(history, steps) ==
  LET count == Min(steps, Len(history))
  IN IF count < Len(history) THEN slice_to(history, 0 - count) ELSE <<>>

\* undo_last_actions(steps) (lines 533-561)
undo_last_actions(steps) ==
  /\ ~ run.active
  /\ undo_log # <<>>
  /\ Len(ops) < MaxOps
  /\ LET todo == undo_selected(undo_log, steps)
     IN \E failing \in SUBSET (1 .. Len(todo)), saved \in BOOLEAN :
          /\ \A j \in failing : todo[j].new_path \in DOMAIN undo_loop(todo, 1, fs, {})
                                \/ exists(todo[j].new_path)
          /\ faults + Cardinality(failing) + (IF saved THEN 0 ELSE 1) <= MaxFaults
          /\ faults' = faults + Cardinality(failing) + (IF saved THEN 0 ELSE 1)
          /\ fs' = undo_loop(todo, 1, fs, failing)
          /\ undo_log' = IF saved THEN undo_remaining(undo_log, steps) ELSE undo_log
  /\ ops' = Append(ops, [kind |-> "undo", n |-> steps])
  /\ UNCHANGED << aside, cfg, dirs, checkpoint, counters, run, pc, loc, snap, res, moves, shown >>

\* the program is started again: TVShowProcessor.__init__ (lines 178-194)
restart ==
  /\ ~ run.active
  /\ counters # counters0
  /\ counters' = counters0
  /\ shown' = FALSE
  /\ UNCHANGED << aside, cfg, fs, dirs, undo_log, checkpoint, run, pc, loc, faults, ops,
                  snap, res, moves >>

\* ------------------------------------------------------------ specification
UndoSteps == (0 - 1) .. MaxUndo

Next ==
  \/ \E preview \in BOOLEAN : process(preview)
  \/ \E steps \in UndoSteps : undo_last_actions(steps)
  \/ restart
  \/ finish
  \/ \E f \in Files :
       \/ start_file(f)
       \/ count_processed(f)
       \/ read_skipped(f)
       \/ count_skipped(f)
       \/ read_backups(f)
       \/ count_backups(f)
       \/ move_primary(f)
       \/ fallback_makedirs(f)
       \/ fallback_to_temp(f)
       \/ fallback_to_dest(f)
       \/ fallback_rmdir(f)
       \/ read_history(f)
       \/ _record_undo_action(f)
       \/ read_moved(f)
       \/ count_moved(f)
       \/ move_meta(f)
       \/ add_processed(f)
       \/ _save_checkpoint(f)

Spec == Init /\ [][Next]_vars

\* The program under an operator who may also interrupt a run.
NextInterrupt ==
  \/ Next
  \/ interrupt

SpecInterrupt == Init /\ [][NextInterrupt]_vars

\* ------------------------------------------------------------ FileProcessor
\* src/tools/file_processor.py: FileProcessor.batch_rename on one directory.
\* A file name is a sequence of tokens; a pattern is one token and matches the
\* names that hold it; "(" is a pattern that re.compile rejects.
MaxListing == 3
MaxCalls   == 2
MaxRenameFaults == 1
Names ==
  { <<"old_", "file", "1", ".txt">>, <<"old_", "file", "2", ".txt">>,
    <<"new_", "file", "1", ".txt">>, <<"note", ".txt">> }
SubdirNames  == { <<"old_", "dir">> }
Patterns     == {"old_", "file", "("}
Replacements == {"new_", "old_"}

\* a TVShowProcessor that is constructed over no file and left alone
NoTVShow ==
  Constructed([parallel_processing |-> FALSE, retry_on_error |-> FALSE, backup |-> FALSE],
              [q \in {} |-> 0])

\* re.compile(pattern) succeeds
re_compile(pattern) == pattern # "("
\* regex.search(filename)
regex_search(pattern, filename) ==
  \E i \in 1 .. Len(filename) : filename[i] = pattern
\* regex.sub(replacement, filename)
regex_sub(pattern, replacement, filename) ==
  [i \in 1 .. Len(filename) |-> IF filename[i] = pattern THEN replacement ELSE filename[i]]

\* os.listdir(directory) filtered by os.path.isfile: the files in some order
listing(S) ==
  {q \in [1 .. Cardinality(S) -> S] : \A i, j \in 1 .. Cardinality(S) : q[i] = q[j] => i = j}

\* the preview branch of the loop body (lines 66-68)
preview_file(st, filename, new_name) ==
  [st EXCEPT !.renamed = Append(@, <<filename, new_name>>),
             !.operations_log = Append(@, <<"preview", filename, new_name>>)]

\* the execute branch of the loop body (lines 69-79); fails: os.rename raises
rename_file(st, filename, new_name, fails, subdirs) ==
  IF new_name \in st.files \cup subdirs
  THEN [st EXCEPT !.errors = Append(@, <<"exists", new_name>>)]
  ELSE IF fails
  THEN [st EXCEPT !.errors = Append(@, <<"failed", filename>>)]
  ELSE [st EXCEPT !.files = (@ \ {filename}) \cup {new_name},
                  !.renamed = Append(@, <<filename, new_name>>),
                  !.processed_files = Append(@, new_name),
                  !.operations_log = Append(@, <<"rename", filename, new_name>>)]

\* a loop body that renames whatever preview says
rename_one_regardless(st, filename, pattern, replacement, preview, fails, subdirs) ==
  IF regex_search(pattern, filename)
  THEN rename_file(st, filename, regex_sub(pattern, replacement, filename), fails, subdirs)
  ELSE st

\* the loop body (lines 58-81)
rename_one(st, filename, pattern, replacement, preview, fails, subdirs) ==
  IF regex_search(pattern, filename)
  THEN IF preview
       THEN preview_file(st, filename, regex_sub(pattern, replacement, filename))
       ELSE rename_file(st, filename, regex_sub(pattern, replacement, filename), fails, subdirs)
  ELSE st

\* for filename in files (line 58)
RECURSIVE rename_loop(_, _, _, _, _, _, _, _)
rename_loop(st, files, i, pattern, replacement, preview, failing, subdirs) ==
  IF i > Len(files) THEN st
  ELSE rename_loop(rename_one(st, files[i], pattern, replacement, preview,
                              files[i] \in failing, subdirs),
                   files, i + 1, pattern, replacement, preview, failing, subdirs)

\* batch_rename(directory, pattern, replacement, preview) (lines 26-83)
batch_rename(pattern, replacement, preview) ==
  /\ call.n < MaxCalls
  /\ \E files \in listing(directory.files), failing \in SUBSET directory.files :
       /\ Cardinality(failing) <= MaxRenameFaults
       /\ preview => failing = {}
       /\ LET st0 == [files |-> directory.files, renamed |-> <<>>,
                      processed_files |-> file_processor.processed_files,
                      errors |-> file_processor.errors,
                      operations_log |-> file_processor.operations_log]
              st  == IF ~ directory.exists
                     THEN [st0 EXCEPT !.errors = Append(@, <<"no directory">>)]
                     ELSE IF ~ re_compile(pattern)
                     THEN [st0 EXCEPT !.errors = Append(@, <<"re.error", pattern>>)]
                     ELSE rename_loop(st0, files, 1, pattern, replacement, preview,
                                      failing, directory.subdirs)
          IN /\ directory' = [directory EXCEPT !.files = st.files]
             /\ file_processor' = [processed_files |-> st.processed_files,
                                   errors |-> st.errors,
                                   operations_log |-> st.operations_log]
             /\ call' = [n |-> call.n + 1, pattern |-> pattern,
                         replacement |-> replacement, preview |-> preview,
                         directory |-> directory,
                         processed_files |-> file_processor.processed_files,
                         renamed |-> st.renamed, errors |-> st.errors]
  /\ UNCHANGED << tvshow, probe >>

InitFileProcessor ==
  /\ NoTVShow
  /\ \E e \in BOOLEAN, F \in SUBSET Names, D \in SUBSET SubdirNames :
        /\ Cardinality(F) <= MaxListing
        /\ ~ e => (F = {} /\ D = {})
        /\ directory = [exists |-> e, files |-> F, subdirs |-> D]
  /\ file_processor = file_processor0
  /\ call = call0
  /\ probe = probe0

NextFileProcessor ==
  \E pattern \in Patterns, replacement \in Replacements, preview \in BOOLEAN :
     batch_rename(pattern, replacement, preview)

SpecFileProcessor == InitFileProcessor /\ [][NextFileProcessor]_vars

\* ------------------------------------------------------------ the functions, call by call
\* extract_info, the two number parsers and _collect_files applied to inputs of
\* bounded sets; probe holds the call.  The functions keep no state, so one
\* call per behaviour covers them.
MaxTree == 2
ProbeDirs ==
  { <<"ShowA", " ", "S01">>, <<"S01">>, <<"S02">>, <<"misc">>, <<"ShowA">> }
ProbeNames ==
  { <<"ShowB", ".", "S01", "E02", ".mkv">>, <<"ShowB", ".", "S02", ".mkv">>,
    <<"ShowB", "-", "E03", ".mkv">>, <<"part1", ".mkv">>,
    <<"ShowB", ".", "S00", "E01", ".mkv">>, <<"ShowB", ".", "S01", "E00", ".mkv">>,
    <<"random_video_clip", ".mp4">> }
ProbePaths ==
  {Root \o <<d, n>> : d \in ProbeDirs, n \in ProbeNames}
  \cup {Root \o <<d1, d2, n>> : d1 \in ProbeDirs, d2 \in ProbeDirs, n \in ProbeNames}
NumberTokens ==
  (DOMAIN cn_episode) \cup (DOMAIN SNum) \cup (DOMAIN Digits) \cup {"E01", "x"}

parse_file ==
  /\ probe = probe0
  /\ \E filepath \in ProbePaths :
       probe' = [fn |-> "extract_info", arg |-> filepath, out |-> extract_info(filepath)]
  /\ UNCHANGED << tvshow, directory, file_processor, call >>

parse_season ==
  /\ probe = probe0
  /\ \E s \in NumberTokens :
       probe' = [fn |-> "_parse_season_number", arg |-> s, out |-> _parse_season_number(s)]
  /\ UNCHANGED << tvshow, directory, file_processor, call >>

parse_episode ==
  /\ probe = probe0
  /\ \E s \in NumberTokens :
       probe' = [fn |-> "_parse_episode_number", arg |-> s, out |-> _parse_episode_number(s)]
  /\ UNCHANGED << tvshow, directory, file_processor, call >>

collect ==
  /\ probe = probe0
  /\ \E processed \in SUBSET (DOMAIN fs) :
       probe' = [fn |-> "_collect_files", arg |-> processed, out |-> _collect_files(processed)]
  /\ UNCHANGED << tvshow, directory, file_processor, call >>

InitFunctions ==
  /\ \E W \in SUBSET (1 .. Len(Walk)) :
        /\ Cardinality(W) <= MaxTree
        /\ Constructed([parallel_processing |-> FALSE, retry_on_error |-> FALSE,
                        backup |-> FALSE],
                       [q \in {Walk[i] : i \in W} |-> 1])
  /\ directory = directory0
  /\ file_processor = file_processor0
  /\ call = call0
  /\ probe = probe0

NextFunctions ==
  \/ parse_file
  \/ parse_season
  \/ parse_episode
  \/ collect

SpecFunctions == InitFunctions /\ [][NextFunctions]_vars

\* ------------------------------------------------------------ properties
LastOp == ops[Len(ops)]
\* the last call was process() in this mode and it has printed its summary
Ended(kind) == Len(ops) >= 1 /\ LastOp.kind = kind /\ ~ run.active /\ shown

\* C1: after an execute run in which every move succeeded and was recorded,
\* undo_last_actions(N) with N the number of moves brings every file back to its
\* original path with its content, and leaves the undo log empty -- also when
\* several files were planned to the same destination.
C1_UndoRestoresEveryFile ==
  (/\ Len(ops) = 2 /\ ops[1].kind = "execute" /\ ops[2].kind = "undo"
   /\ ops[2].n = Cardinality(moves)
   /\ faults = 0 /\ ~ cfg.parallel_processing)
  => /\ undo_log = <<>>
     /\ \A p \in DOMAIN snap.fs : p \in DOMAIN fs /\ fs[p] = snap.fs[p]

\* C2: undo_last_actions(n) on a log of length L reverses exactly the
\* k = min(max(n,0), L) newest entries, newest first, skipping an entry whose
\* new_path is gone, and leaves the first L - k entries as the log; with n = 0
\* nothing moves and the log is unchanged.
C2_UndoReversesNewestK ==
  [][\A n \in UndoSteps :
       (ops' = Append(ops, [kind |-> "undo", n |-> n]) /\ faults' = faults)
       => LET L == Len(undo_log)
              k == Min(Max(n, 0), L)
          IN /\ undo_log' = SubSeq(undo_log, 1, L - k)
             /\ fs' = undo_loop(reversed(SubSeq(undo_log, L - k + 1, L)), 1, fs, {})]_vars

\* C3: in execute mode a move whose destination path already exists at move time
\* is not performed: source and destination keep their files.
C3_NoSilentOverwrite ==
  [][\A f \in Files :
       (pc[f] \in {"move", "to_dest"} /\ pc'[f] # pc[f] /\ exists(new_path(f)))
       => fs' = fs]_vars

\* C4: when process(preview=True) has finished, the files, the directories and
\* the undo log are what they were before the call.
C4_PreviewMutatesNothing ==
  (Len(ops) >= 1 /\ LastOp.kind = "preview" /\ ~ run.active)
  => fs = snap.fs /\ dirs = snap.dirs /\ undo_log = snap.undo_log

\* C5: when a run ends, every file it processed is in the persisted checkpoint,
\* a file whose processing failed with a counted error included (stated for a
\* run whose only I/O failure is the one that made the file fail).
C5_FailedFileIsCheckpointed ==
  (Len(ops) = 1 /\ Ended("execute") /\ faults = 1)
  => \A f \in Files :
       res[f] = "error" => checkpoint.ok /\ src(f) \in checkpoint.paths

\* C6: _collect_files never returns a path that an earlier run recorded in the
\* checkpoint file while a file still exists at that path.
C6_CheckpointExclusion ==
  run.active
  => \A k \in 1 .. Len(run.all_files) :
       ~ (run.all_files[k] \in snap.checkpoint.paths /\ run.all_files[k] \in DOMAIN snap.fs)

\* C7: of two execute runs in succession the second one moves no file, whatever
\* the outcomes of the first were.
C7_SecondRunMovesNothing ==
  (Len(ops) = 2 /\ ops[1].kind = "execute" /\ ops[2].kind = "execute")
  => /\ moves = {}
     /\ Ended("execute") => counters.moved = snap.counters.moved

\* C8: every step of the processing of a file without a parse result leaves the
\* files, the directories and the undo log alone and counts neither a move, a
\* backup nor an error; the step that counts the skip raises the skipped counter
\* by exactly 1.
C8_NoPartialRename ==
  [][\A f \in Files :
       (Active(f) /\ info(f) = NoInfo /\ pc'[f] # pc[f])
       => /\ fs' = fs /\ dirs' = dirs /\ undo_log' = undo_log
          /\ counters'.moved = counters.moved
          /\ counters'.backups = counters.backups
          /\ counters'.errors = counters.errors
          /\ counters'.parallel_errors = counters.parallel_errors
          /\ pc[f] = "count_skipped" => counters'.skipped = counters.skipped + 1]_vars

\* C9: when a run ends, the errors counter has grown by exactly the number of
\* files of the run whose processing failed.
C9_EachFailureCountsOnce ==
  (Ended("execute") \/ Ended("preview"))
  => counters.errors
       = snap.counters.errors + Cardinality({f \in Files : res[f] = "error"})

\* C10: after a sequential execute run the undo log is the log from before the
\* run followed by exactly one entry for every successful move of the run.
C10_LogAppendOnly ==
  (Ended("execute") /\ ~ cfg.parallel_processing)
  => /\ Len(undo_log) = Len(snap.undo_log) + Cardinality(moves)
     /\ SubSeq(undo_log, 1, Len(snap.undo_log)) = snap.undo_log
     /\ {undo_log[k] : k \in Len(snap.undo_log) + 1 .. Len(undo_log)} = moves

\* C11: after a worker-pool execute run without I/O failures, the persisted undo
\* log holds an entry for every successful move (primary or sidecar) that any
\* worker performed in the run.
C11_NoLostUndoEntry ==
  (Ended("execute") /\ cfg.parallel_processing /\ faults = 0)
  => \A e \in moves : \E k \in 1 .. Len(undo_log) : undo_log[k] = e

\* C12: after a worker-pool execute run without I/O failures, the checkpoint
\* file is a well-formed list that holds every path loaded at the start of the
\* run and the source path of every file whose processing completed in the run.
C12_NoLostCheckpointEntry ==
  (Ended("execute") /\ cfg.parallel_processing /\ faults = 0)
  => /\ checkpoint.ok
     /\ (IF snap.checkpoint.ok THEN snap.checkpoint.paths ELSE {}) \subseteq checkpoint.paths
     /\ \A f \in Files : res[f] \in {"moved", "skipped"} => src(f) \in checkpoint.paths

\* C13: in the state an interrupted execute run leaves (no I/O failure), every
\* file that was moved to its destination has its undo-log entry and its source
\* path in the persisted checkpoint.
C13_InterruptBetweenFiles ==
  (Len(ops) = 1 /\ LastOp.kind = "interrupted" /\ faults = 0)
  => \A f \in Files :
       Entry(src(f), new_path(f)) \in moves
       => /\ \E k \in 1 .. Len(undo_log) : undo_log[k] = Entry(src(f), new_path(f))
          /\ checkpoint.ok /\ src(f) \in checkpoint.paths

\* C14: at the start of every call of process() the counters processed, moved,
\* skipped, errors and backups are 0 (snap.counters is what the call found).
C14_CountersZeroAtStart ==
  (Len(ops) >= 1 /\ LastOp.kind \in {"execute", "preview"})
  => \A k \in {"processed", "moved", "skipped", "errors", "backups"} :
       snap.counters[k] = 0

\* C15: every call of process() has printed the final summary (_show_results)
\* when it returns, whether it returns from the branch of an empty collection
\* or after the last file.
C15_SummaryAlwaysPrints ==
  [][ ( /\ run.active \/ ops' # ops
        /\ Len(ops') >= 1
        /\ ops'[Len(ops')].kind \in {"execute", "preview"}
        /\ ~ run'.active )
      => shown' ]_vars

C18_PreviewRenamesNothing ==
  (call.n >= 1 /\ call.preview)
  => /\ directory = call.directory
     /\ file_processor.processed_files = call.processed_files
     /\ LET matching == {f \in call.directory.files : regex_search(call.pattern, f)}
        IN /\ Len(call.renamed) = Cardinality(matching)
           /\ {call.renamed[i] : i \in 1 .. Len(call.renamed)}
                = {<<f, regex_sub(call.pattern, call.replacement, f)>> : f \in matching}

\* a preview over a directory in which two files match and one does not
C18_PreviewOfTwo ==
  /\ call.n >= 1 /\ call.preview
  /\ Len(call.renamed) = 2
  /\ \E f \in directory.files : ~ regex_search(call.pattern, f)

\* C17: for every file whose directory name matches a directory-season pattern
\* and whose file name matches a title+season pattern, extract_info returns the
\* record of the directory-based step; and in general the first of the steps
\* directory, filename, fallback that yields a record gives the result.
DirMatches(dname) ==
  \E k \in 1 .. Len(dir_season_patterns) : search(dir_season_patterns[k], dname) # 0
NameMatches(base) == title_season_dot(base, 1) # 0
C17_DirectoryStepWins ==
  probe.fn = "extract_info"
  => LET filename == basename(probe.arg)
         base     == splitext_root(filename)
         dname    == basename(dirname(probe.arg))
         parent   == basename(dirname(dirname(probe.arg)))
         r1       == _extract_info_from_dir(dname, parent)
         r2       == _extract_info_from_filename(base)
         r3       == _extract_mixed_info(dname, parent, base)
         first    == IF r1 # NoInfo THEN r1 ELSE IF r2 # NoInfo THEN r2 ELSE r3
     IN /\ (DirMatches(dname) /\ NameMatches(base))
           => /\ r1 # NoInfo
              /\ probe.out = [r1 EXCEPT !.ext = splitext_ext(filename)]
        /\ first # NoInfo => probe.out = [first EXCEPT !.ext = splitext_ext(filename)]
        /\ first = NoInfo => probe.out = NoInfo

\* C19: _collect_files returns no file that lies, at any depth, beneath a
\* directory whose name contains one of rules.exclude_dirs.
C19_ExcludedDirsPruned ==
  probe.fn = "_collect_files"
  => \A i \in 1 .. Len(probe.out) :
       \A k \in 1 .. (Len(probe.out[i]) - 1) : ~ _should_skip_dir(<<probe.out[i][k]>>)

\* C20: both number parsers return the value of every CJK numeral of the table
\* from one to twenty and the base-10 value of every digit string, the season
\* parser after stripping a leading S.
C20_NumeralsParsed ==
  probe.fn \in {"_parse_season_number", "_parse_episode_number"}
  => /\ probe.arg \in DOMAIN cn_episode => probe.out = cn_episode[probe.arg]
     /\ probe.arg \in DOMAIN Digits => probe.out = Digits[probe.arg]
     /\ (probe.fn = "_parse_season_number" /\ probe.arg \in DOMAIN SNum)
        => probe.out = Digits[SNum[probe.arg]]

\* C21: every record extract_info returns has a non-empty title, a season >= 1
\* and an episode >= 1.
C21_ResolvedRecord ==
  (probe.fn = "extract_info" /\ probe.out # NoInfo)
  => /\ Len(probe.out.title) > 0
     /\ probe.out.season >= 1
     /\ probe.out.episode >= 1

\* C22: when the directory-based step resolves a file, the episode of the
\* returned record is the number the episode patterns extract from the file's
\* own name.
C22_EpisodeFromFileName ==
  probe.fn = "extract_info"
  => LET filename == basename(probe.arg)
         base     == splitext_root(filename)
         dname    == basename(dirname(probe.arg))
         parent   == basename(dirname(dirname(probe.arg)))
     IN (_extract_info_from_dir(dname, parent) # NoInfo /\ _extract_episode(base) # None)
        => (probe.out # NoInfo /\ probe.out.episode = _extract_episode(base))

\* C23: a primary move that fails is attempted again (up to the maximum of 3
\* attempts) before the fallback is tried: with rules.retry_on_error the step on
\* which shutil.move of the primary file fails leaves the thread at the move.
\* (A thread that stands at "move" is at its first attempt.)
C23_RetryBeforeFallback ==
  [][\A f \in Files :
       (cfg.retry_on_error /\ pc[f] = "move" /\ faults' = faults + 1)
       => pc'[f] = "move"]_vars

\* C24: the backup is best-effort and precedes the move.  On the step of an
\* execute run with a backup directory on which os.makedirs has succeeded and
\* the copy is attempted, the file is still at its source and not yet moved;
\* the thread goes on to count the backup (the copy is there) or, when the copy
\* failed, straight to the move, with the backups and errors counters as they
\* were.
C24_BackupIsBestEffort ==
  [][\A f \in Files :
       ( /\ cfg.backup /\ run.active /\ ~ run.preview /\ info(f) # NoInfo
         /\ pc[f] = "count_processed" /\ pc'[f] # "count_processed"
         /\ (dirs' # dirs \/ faults' = faults) )
       => /\ src(f) \in DOMAIN fs'
          /\ Entry(src(f), new_path(f)) \notin moves'
          /\ pc'[f] \in {"read_backups", "move"}
          /\ pc'[f] = "read_backups" => backup_path(f) \in DOMAIN fs'
          /\ pc'[f] = "move" => /\ counters'.backups = counters.backups
                                /\ counters'.errors = counters.errors
                                /\ res'[f] # "error"]_vars

\* a file whose backup copy failed has been moved all the same: it is at its
\* destination, nothing is in the backup directory, no backup and no error is
\* counted
C24_MovedWithoutBackup ==
  \E f \in Files :
    /\ cfg.backup /\ Ended("execute")
    /\ res[f] = "moved" /\ Entry(src(f), new_path(f)) \in moves
    /\ new_path(f) \in DOMAIN fs
    /\ backup_path(f) \notin DOMAIN fs
    /\ counters.backups = 0 /\ counters.errors = 0 /\ counters.moved = 1

\* C25: sidecar failures do not affect the primary move.  A thread is at the
\* sidecar loop only after its primary file was moved; the step on which the
\* move of a sidecar fails leaves the file system, the undo log, the counters
\* and the outcome "moved" of the file as they were and takes the thread to the
\* next sidecar or, after the last one, to the checkpoint.  And a sequential
\* run whose only failure was a sidecar move ends with the primary file at its
\* destination, its entry in the undo log, counted as moved, no error counted
\* and its source in the checkpoint.
SidecarLeft(f) ==
  \E k \in 1 .. Len(Sidecars) :
     Sidecars[k][1] = f /\ with_ext(src(f), Sidecars[k][2]) \in DOMAIN fs
C25_SidecarFailureIsLocal ==
  /\ [][\A f \in Files :
          (pc[f] = "meta" /\ (pc'[f] # pc[f] \/ loc'[f] # loc[f]))
          => /\ Entry(src(f), new_path(f)) \in moves
             /\ faults' = faults + 1
                => /\ fs' = fs /\ undo_log' = undo_log /\ counters' = counters
                   /\ res[f] = "moved" /\ res'[f] = "moved"
                   /\ LET j == next_meta(f, loc[f].sc)
                      IN /\ pc'[f] = meta_target(j)
                         /\ j # 0 => loc'[f].sc = j]_vars
  /\ [](\A f \in Files :
          ( /\ Ended("execute") /\ Len(ops) = 1 /\ ~ cfg.parallel_processing
            /\ faults = 1 /\ Entry(src(f), new_path(f)) \in moves /\ SidecarLeft(f) )
          => /\ new_path(f) \in DOMAIN fs
             /\ \E k \in 1 .. Len(undo_log) : undo_log[k] = Entry(src(f), new_path(f))
             /\ res[f] = "moved"
             /\ counters.moved = Cardinality({g \in Files : res[g] = "moved"})
             /\ counters.errors = 0
             /\ checkpoint.ok /\ src(f) \in checkpoint.paths)

\* a run in which the first sidecar of a file failed to move and the second
\* one was moved, ended
C25_OneSidecarLeftBehind ==
  \E f \in Files :
    /\ Ended("execute") /\ faults = 1
    /\ Entry(src(f), new_path(f)) \in moves /\ res[f] = "moved"
    /\ old_meta(f, 1) \in DOMAIN fs
    /\ Entry(old_meta(f, 2), new_meta(f, 2)) \in moves
    /\ counters.errors = 0 /\ src(f) \in checkpoint.paths

\* C26: preview is always sequential.  A run is in the worker pool only when
\* rules.parallel_processing is set and preview is false; in a preview run at
\* most one file is being processed, the files before it in collection order
\* are finished and the files after it are untouched.
C26_PreviewIsSequential ==
  run.active
  => /\ run.parallel <=> (cfg.parallel_processing /\ ~ run.preview)
     /\ run.preview
        => /\ Cardinality({f \in Files : Active(f)}) <= 1
           /\ \A k \in 1 .. Len(run.all_files) :
                LET f == FileOf(run.all_files[k])
                IN /\ k < run.next - 1 => pc[f] = "done"
                   /\ k >= run.next => pc[f] = "idle"

\* a preview run under rules.parallel_processing at work on its second file
C26_PreviewUnderPoolConfig ==
  /\ cfg.parallel_processing /\ run.active /\ run.preview
  /\ run.next = 3
  /\ \E f \in Files : Active(f)

\* C27: when the first execute run of a processor ends, without any I/O failure,
\* processed = moved + skipped + errors and processed is the number of files
\* collected, in sequential mode and in the worker pool.
C27_CounterConservation ==
  (Ended("execute") /\ Len(ops) = 1 /\ faults = 0)
  => /\ counters.processed = counters.moved + counters.skipped + counters.errors
     /\ counters.processed = LastOp.n

\* C28: a file whose processing ended in an error in an execute run is still at
\* its source path and has no undo-log entry; in particular it is not left in
\* the temporary staging directory.
C28_FailedFileStaysPut ==
  (Len(ops) = 1 /\ LastOp.kind = "execute")
  => \A f \in Files :
       (res[f] = "error" /\ pc[f] = "done")
       => /\ src(f) \in DOMAIN fs
          /\ temp_path(f) \notin DOMAIN fs
          /\ \A k \in 1 .. Len(undo_log) : undo_log[k].original # src(f)

\* C29: a preview run does not consume files: when process(preview=True) has
\* finished (no I/O failure), the persisted checkpoint is what it was before
\* the call.
C29_PreviewKeepsCheckpoint ==
  (Len(ops) >= 1 /\ LastOp.kind = "preview" /\ ~ run.active /\ faults = 0)
  => checkpoint = snap.checkpoint

\* C30: undo leaves the checkpoint unchanged.  The step of undo_last_actions
\* does not change the checkpoint file; and after an undo, a file whose source
\* path is in the checkpoint, restored or not, is not among the files that
\* _collect_files returns to the next run.
C30_UndoKeepsCheckpoint ==
  /\ [][(Len(ops') = Len(ops) + 1 /\ ops'[Len(ops')].kind = "undo")
        => checkpoint' = checkpoint]_vars
  /\ []((Len(ops) >= 1 /\ LastOp.kind = "undo" /\ checkpoint.ok)
        => LET all_files == _collect_files(_load_checkpoint)
           IN \A f \in Files :
                src(f) \in checkpoint.paths
                => \A k \in 1 .. Len(all_files) : all_files[k] # src(f))

\* an undo has put a file of the last run back at its source path, and the
\* source path is in the checkpoint
C30_RestoredAndCheckpointed ==
  \E f \in Files :
    /\ Len(ops) = 2 /\ LastOp.kind = "undo"
    /\ Entry(src(f), new_path(f)) \in moves
    /\ src(f) \in DOMAIN fs /\ new_path(f) \notin DOMAIN fs
    /\ checkpoint.ok /\ src(f) \in checkpoint.paths

====
